---- MODULE Spec2Model ----
(***************************************************************************)
(* Model of scripts/data/build_recent_proof.py: the incremental            *)
(* proof-range pipeline controller build_recent_proof and its helpers      *)
(* get_latest_block_height, convert_proof_to_json and upload_to_gcs.       *)
(*                                                                         *)
(* One invocation of build_recent_proof is a walk of pc through the        *)
(* statements of the function; the collaborators (RPC oracle, prover,      *)
(* converter subprocess, metadata generator, storage client, file system)  *)
(* answer nondeterministically.  The storage bucket and the disk persist    *)
(* from one invocation to the next; everything else is local to a run.     *)
(*                                                                         *)
(* An Optional[T] value is a sequence: None is << >>, a value x is <<x>>.   *)
(***************************************************************************)
EXTENDS Integers, Sequences, FiniteSets, TLC

\* ---------------------------------------------------------------- bounds
\* Heights known to the chain: 0 .. MaxHeight.
MaxHeight == 3
\* Largest --max-step tried; the smallest is -1 (argparse type=int accepts any).
MaxStepArg == 2
\* Invocations of the pipeline per behaviour.
MaxRuns == 2

\* Invocations without --start in the resume specification.
MaxResumeRuns == 3

\* Test files on one command line of collect_resources.py.
MaxTestFiles == 3

None == << >>
Some(x) == << x >>
Val(o) == o[1]
Opt(S) == {None} \cup {Some(x) : x \in S}

Min(a, b) == IF a <= b THEN a ELSE b

Heights == 0 .. MaxHeight
\* --start is any integer: one negative value, and heights below, at and above a tip.
StartArgs == Opt(-1 .. MaxHeight)
\* --max-height is any integer: heights below, at and above a tip.
MaxHeightArgs == Opt(0 .. MaxHeight)
MaxStepArgs == -1 .. MaxStepArg
\* best_block_hash values the metadata generator may report for one height.
Hashes == {"ha", "hb"}

VARIABLES
    pc,        \* position in build_recent_proof ("idle" before, "done" after)
    nruns,     \* invocations started so far
    args,      \* the arguments as passed by the caller
    v,         \* the local variables of build_recent_proof
    ret,       \* its return value: None while running, <<TRUE>> or <<FALSE>>
    log,       \* the log lines written by this run: [level, msg]
    calls,     \* the collaborator calls made by this run, in order
    disk,      \* the artifact files present on disk
    store,     \* the bucket: blob name -> uploaded record
    clock,     \* datetime.now(), as a counter
    puts,      \* history: the (block_height, best_block_hash) of every completed put
    other,     \* a second invocation running at the same time: its position and locals
    collector  \* collect_resources.py: the ResourceCollector and the position of run

vars == << pc, nruns, args, v, ret, log, calls, disk, store, clock, puts, other, collector >>

\* ------------------------------------------------------------ data shapes
Call(fn, ints, strs) == [fn |-> fn, ints |-> ints, strs |-> strs]
Line(level, msg) == [level |-> level, msg |-> msg]

Mode(fast) == IF fast THEN "fast" ELSE "slow"

\* The prover's native artifact (prove_pow is an external tool: one path).
NativeProof == [stem |-> << "proof" >>, suffix |-> "json"]

NoLocals ==
    [ start_height      |-> None,
      max_height        |-> None,
      latest_height     |-> None,
      end_height        |-> None,
      blocks_to_process |-> None,
      step              |-> None,
      proof_file        |-> None,
      json_proof_file   |-> None,
      chainstate_data   |-> None,
      mmr_roots         |-> None,
      upload_success    |-> None ]

\* The second invocation before it starts.
NoOther ==
    [ pc              |-> "idle",
      chainstate_data |-> None,
      timestamp       |-> None,
      upload_success  |-> None ]

\* ResourceCollector() before run: counters 0, no failures, no results; with
\* the position of run, its arguments, the arguments files on disk, the CSV
\* report, the exit status, and the number of existing files given to run_test.
NewCollector ==
    [ pc              |-> "idle",
      test_files      |-> << >>,
      next            |-> 1,
      forceall        |-> FALSE,
      ignored_files   |-> {},
      test_results    |-> {},
      num_ok          |-> 0,
      num_fail        |-> 0,
      num_ignored     |-> 0,
      failures        |-> << >>,
      arguments_files |-> {},
      csv_written     |-> FALSE,
      raised          |-> FALSE,
      status          |-> None,
      processed       |-> 0 ]

NoArgs ==
    [ start_height         |-> None,
      max_step             |-> 1,
      fast_data_generation |-> TRUE,
      max_height           |-> None ]

Init ==
    /\ pc = "idle"
    /\ nruns = 0
    /\ args = NoArgs
    /\ v = NoLocals
    /\ ret = None
    /\ log = << >>
    /\ calls = << >>
    /\ disk = {}
    /\ store = << >>
    /\ clock = 0
    /\ puts = << >>
    /\ other = NoOther
    /\ collector = NewCollector

\* The exceptions the collaborators raise, by class; all derive from Exception.
Exceptions ==
    { "RpcError", "AutoDetectError", "ProverError", "OSError", "GenerateDataError", "KeyError" }

\* Mutant of ControllerCatches: the handler names one class only.
ControllerCatchesKeyErrorOnly(exc) == exc = "KeyError"

\* except Exception as e   (line 252)
ControllerCatches(exc) == exc \in Exceptions

\* An exception raised inside the try block of build_recent_proof after logging
\* <lines>: the handler logs it and returns False (lines 252-255); an exception
\* it does not catch leaves the function.
Caught(exc, lines) ==
    IF ControllerCatches(exc)
      THEN /\ log' = log \o lines \o << Line("error", "Error in build_recent_proof") >>
           /\ ret' = Some(FALSE)
           /\ pc' = "done"
      ELSE /\ log' = log \o lines
           /\ ret' = ret
           /\ pc' = "raised"

\* A  return <b>  after logging <lines>.
Return(b, lines) ==
    /\ log' = log \o lines
    /\ ret' = Some(b)
    /\ pc' = "done"

\* ------------------------------------------------------------- entry point
\* __main__ calls build_recent_proof(args.start, args.max_step, fast, args.max_height).
InvokeWith(starts, maxruns) ==
    /\ pc = "idle"
    /\ nruns < maxruns
    /\ \E s \in starts, ms \in MaxStepArgs, f \in BOOLEAN, mh \in MaxHeightArgs :
          /\ args' = [ start_height         |-> s,
                       max_step             |-> ms,
                       fast_data_generation |-> f,
                       max_height           |-> mh ]
          /\ v' = [NoLocals EXCEPT !.start_height = s, !.max_height = mh]
    /\ nruns' = nruns + 1
    /\ pc' = "get_latest"
    /\ UNCHANGED << ret, log, calls, disk, store, clock, puts, other, collector >>

\* Any invocation: --start given or not.
Invoke == InvokeWith(StartArgs, MaxRuns)

\* An invocation without --start (start_height=None, lines 262-266).
InvokeResume == InvokeWith({ None }, MaxResumeRuns)

\* latest_height = get_latest_block_height()   (line 158; lines 36-48)
GetLatestBlockHeight ==
    /\ pc = "get_latest"
    /\ calls' = Append(calls, Call("get_latest_block_height", << >>, << >>))
    /\ \/ \E h \in Heights :
             /\ v' = [v EXCEPT !.latest_height = Some(h)]
             /\ pc' = "resolve_start"
             /\ UNCHANGED << ret, log >>
       \/ /\ Caught("RpcError", << Line("error", "Failed to get latest block height") >>)
          /\ UNCHANGED v
    /\ UNCHANGED << nruns, args, disk, store, clock, puts, other, collector >>

\* auto_detect_start() of prove_pow.py: the next height after the highest
\* published one, 0 when nothing is published yet.
PublishedHeights == { Val(store[n].chainstate.block_height) : n \in DOMAIN store }

SetMax(S) == CHOOSE x \in S : \A y \in S : y <= x

auto_detect_start ==
    IF PublishedHeights = {} THEN 0 ELSE SetMax(PublishedHeights) + 1

\* if start_height is None: start_height = auto_detect_start()   (lines 160-162)
AutoDetectStart ==
    /\ pc = "resolve_start"
    /\ v.start_height = None
    /\ calls' = Append(calls, Call("auto_detect_start", << >>, << >>))
    /\ \/ /\ v' = [v EXCEPT !.start_height = Some(auto_detect_start)]
          /\ pc' = "apply_max_height"
          /\ UNCHANGED << ret, log >>
       \/ /\ Caught("AutoDetectError", << >>)
          /\ UNCHANGED v
    /\ UNCHANGED << nruns, args, disk, store, clock, puts, other, collector >>

\* Mutant of StartIsNegative: the bound is off by one.
StartIsNegativeOffByOne(start_height) == start_height < -1

\* if start_height < 0   (line 166)
StartIsNegative(start_height) == start_height < 0

\* else: ... if start_height < 0: return False   (lines 163-168)
ProvidedStart ==
    /\ pc = "resolve_start"
    /\ v.start_height # None
    /\ IF StartIsNegative(Val(v.start_height))
         THEN Return(FALSE, << Line("error", "Start height cannot be negative") >>)
         ELSE /\ pc' = "apply_max_height"
              /\ UNCHANGED << ret, log >>
    /\ UNCHANGED << nruns, args, v, calls, disk, store, clock, puts, other, collector >>

\* Mutant of MaxHeightBelowStart: the comparison is off by one.
MaxHeightBelowStartOffByOne(max_height, start_height) ==
    max_height # None /\ Val(max_height) < start_height - 1

\* if max_height < start_height   (line 172)
MaxHeightBelowStart(max_height, start_height) ==
    max_height # None /\ Val(max_height) < start_height

\* if max_height >= latest_height: max_height = None   (lines 177-181)
MaxHeightBeyondLatest(max_height, latest_height) ==
    max_height # None /\ Val(max_height) >= latest_height

\* Mutant of ClampMaxHeight: a ceiling beyond the tip is kept.
ClampMaxHeightKept(max_height, latest_height) == max_height

ClampMaxHeight(max_height, latest_height) ==
    IF MaxHeightBeyondLatest(max_height, latest_height) THEN None ELSE max_height

\* end_height = max_height if max_height is not None else latest_height  (line 184)
EndHeight(max_height, latest_height) ==
    IF max_height # None THEN Val(max_height) ELSE latest_height

\* Apply max_height constraint if specified; determine end_height (lines 171-184)
ApplyMaxHeight ==
    /\ pc = "apply_max_height"
    /\ LET start_height == Val(v.start_height)
           latest_height == Val(v.latest_height)
           max_height == ClampMaxHeight(v.max_height, latest_height)
       IN  IF MaxHeightBelowStart(v.max_height, start_height)
             THEN /\ Return(FALSE,
                       << Line("error", "Max height cannot be less than start height") >>)
                  /\ UNCHANGED v
             ELSE /\ v' = [v EXCEPT !.max_height = max_height,
                                    !.end_height = Some(EndHeight(max_height, latest_height))]
                  /\ log' = IF MaxHeightBeyondLatest(v.max_height, latest_height)
                              THEN Append(log, Line("warning", "Max height beyond latest height, using latest height"))
                              ELSE log
                  /\ pc' = "check_range"
                  /\ UNCHANGED ret
    /\ UNCHANGED << nruns, args, calls, disk, store, clock, puts, other, collector >>

\* Mutant of StartNotBelowEnd: an empty range passes the check.
StartAboveEnd(start_height, end_height) == start_height > end_height

\* if start_height >= end_height   (line 186)
StartNotBelowEnd(start_height, end_height) == start_height >= end_height

\* what that branch returns   (line 190)
StartNotBelowEndReturn == FALSE

\* what that branch logs   (line 187: logger.error)
StartNotBelowEndLevel == "error"

\* if blocks_to_process <= 0   (line 194)
NoNewBlocks(blocks_to_process) == blocks_to_process <= 0

\* Mutant of StepFor: the span does not bound the step.
StepForUnbounded(max_step, blocks_to_process) == max_step

\* step = min(max_step, blocks_to_process)   (line 198)
StepFor(max_step, blocks_to_process) == Min(max_step, blocks_to_process)

\* lines 186-205
CheckRange ==
    /\ pc = "check_range"
    /\ LET start_height == Val(v.start_height)
           end_height == Val(v.end_height)
           blocks_to_process == end_height - start_height
       IN  IF StartNotBelowEnd(start_height, end_height)
             THEN /\ Return(StartNotBelowEndReturn,
                       << Line(StartNotBelowEndLevel, "Start height must be less than end height") >>)
                  /\ UNCHANGED v
             ELSE IF NoNewBlocks(blocks_to_process)
               THEN /\ Return(TRUE, << Line("info", "No new blocks to process") >>)
                    /\ v' = [v EXCEPT !.blocks_to_process = Some(blocks_to_process)]
               ELSE /\ v' = [v EXCEPT !.blocks_to_process = Some(blocks_to_process),
                                      !.step = Some(StepFor(args.max_step, blocks_to_process))]
                    /\ log' = Append(log, Line("info", "Processing blocks"))
                    /\ pc' = "prove_pow"
                    /\ UNCHANGED ret
    /\ UNCHANGED << nruns, args, calls, disk, store, clock, puts, other, collector >>

\* the arguments of the prove_pow call   (lines 207-212)
ProvePowArgs(start_height, blocks_to_process, step) ==
    << start_height, blocks_to_process, step >>

\* Mutant of AfterProofNone: a failed prover call is tried again.
AfterProofNoneRetry == "prove_pow"

\* if proof_file is None: ... return False: where the run goes   (lines 213-215)
AfterProofNone == "done"

\* proof_file = prove_pow(...); if proof_file is None: return False   (lines 207-215)
ProvePow ==
    /\ pc = "prove_pow"
    /\ calls' = Append(calls,
          Call("prove_pow",
               ProvePowArgs(Val(v.start_height), Val(v.blocks_to_process), Val(v.step)),
               << Mode(args.fast_data_generation) >>))
    /\ \/ /\ v' = [v EXCEPT !.proof_file = Some(NativeProof)]
          /\ disk' = disk \cup {NativeProof}
          /\ pc' = "convert"
          /\ UNCHANGED << ret, log >>
       \/ /\ log' = Append(log, Line("error", "Failed to generate proof"))
          /\ pc' = AfterProofNone
          /\ ret' = IF AfterProofNone = "done" THEN Some(FALSE) ELSE ret
          /\ UNCHANGED << v, disk >>
       \/ /\ Caught("ProverError", << >>)
          /\ UNCHANGED << v, disk >>
    /\ UNCHANGED << nruns, args, store, clock, puts, other, collector >>

\* json_proof_file = proof_file.parent / f"{proof_file.stem}_json{proof_file.suffix}"
JsonProofFile(proof_file) == [proof_file EXCEPT !.stem = Append(@, "json")]

\* How one run of the convert_proof_format subprocess ends: exit status 0, a
\* non-zero exit (CalledProcessError), no such executable (FileNotFoundError),
\* or another error of subprocess.run, which convert_proof_to_json lets through.
ConvertOutcomes == { "exit_zero", "exit_nonzero", "not_found", "other_error" }

\* what convert_proof_to_json returns   (lines 81, 86, 91)
ConvertResult(outcome, json_proof_file) ==
    IF outcome = "exit_zero" THEN Some(json_proof_file) ELSE None

\* what convert_proof_to_json logs   (lines 80, 83-85, 88-90)
ConvertLines(outcome) ==
    CASE outcome = "exit_zero" ->
           << Line("info", "Successfully converted proof to JSON format") >>
      [] outcome = "exit_nonzero" ->
           << Line("error", "Failed to convert proof format") >>
      [] outcome = "not_found" ->
           << Line("error", "convert_proof_format command not found") >>
      [] OTHER -> << >>

\* Mutant of ConvertFailed: the result of the conversion is not looked at.
ConvertFailedIgnored(json_proof_file) == FALSE

\* if json_proof_file is None   (line 219)
ConvertFailed(json_proof_file) == json_proof_file = None

\* json_proof_file = convert_proof_to_json(proof_file)   (lines 218-221, 51-91)
ConvertProofToJson ==
    /\ pc = "convert"
    /\ calls' = Append(calls, Call("convert_proof_format", << >>, << "blake2s" >>))
    /\ \E outcome \in ConvertOutcomes, written \in BOOLEAN :
         LET path == JsonProofFile(Val(v.proof_file))
             json_proof_file == ConvertResult(outcome, path)
         IN  \* the output exists after exit 0, and may after a non-zero exit
             /\ outcome = "exit_zero" => written
             /\ outcome \in { "not_found", "other_error" } => ~written
             /\ disk' = IF written THEN disk \cup {path} ELSE disk
             /\ IF outcome = "other_error"
                  THEN /\ Caught("OSError", << >>)
                       /\ UNCHANGED v
                  ELSE /\ v' = [v EXCEPT !.json_proof_file = json_proof_file]
                       /\ IF ConvertFailed(json_proof_file)
                            THEN Return(FALSE, ConvertLines(outcome)
                                   \o << Line("error", "Failed to convert proof to JSON format") >>)
                            ELSE /\ log' = log \o ConvertLines(outcome)
                                 /\ pc' = "generate_data"
                                 /\ UNCHANGED ret
    /\ UNCHANGED << nruns, args, store, clock, puts, other, collector >>

\* Mutant of GenerateDataArgs: the metadata of the first block is asked for.
GenerateDataArgsFirstBlock(start_height, blocks_to_process) ==
    << start_height, 1 >>

\* Mutant of GenerateDataArgs: the metadata of the whole range is asked for.
GenerateDataArgsWholeRange(start_height, blocks_to_process) ==
    << start_height, blocks_to_process >>

\* initial_height=start_height + blocks_to_process - 1, num_blocks=1   (lines 227-228)
GenerateDataArgs(start_height, blocks_to_process) ==
    << start_height + blocks_to_process - 1, 1 >>

\* generate_data of generate_data.py: the chain state of the last of the
\* num_blocks blocks starting at initial_height.
ChainStateHeight(initial_height, num_blocks) == initial_height + num_blocks - 1

MmrRoots(block_height, best_block_hash) == << "roots", block_height, best_block_hash >>

\* data = generate_data(...); chainstate_data = data["expected"];
\* mmr_roots = data["mmr_roots"]   (lines 223-232)
GenerateData ==
    /\ pc = "generate_data"
    /\ LET a == GenerateDataArgs(Val(v.start_height), Val(v.blocks_to_process))
           h == ChainStateHeight(a[1], a[2])
       IN  /\ calls' = Append(calls,
                 Call("generate_data", a, << "light", Mode(args.fast_data_generation) >>))
           /\ \/ \E hash \in Hashes, with_height \in BOOLEAN :
                    /\ v' = [v EXCEPT
                               !.chainstate_data =
                                   Some([ block_height |-> IF with_height THEN Some(h) ELSE None,
                                          best_block_hash |-> hash ]),
                               !.mmr_roots = Some(MmrRoots(h, hash))]
                    /\ pc' = "upload"
                    /\ UNCHANGED << ret, log >>
              \/ \* generate_data raises
                 /\ Caught("GenerateDataError", << >>)
                 /\ UNCHANGED v
              \/ \* data lacks "expected" or "mmr_roots"   (lines 231-232)
                 /\ Caught("KeyError", << >>)
                 /\ UNCHANGED v
    /\ UNCHANGED << nruns, args, disk, store, clock, puts, other, collector >>

\* Mutant of BlobName: the upload timestamp is part of the name.
BlobNameTimestamped(chainstate_data) ==
    << "proof", clock, Val(chainstate_data.block_height),
       chainstate_data.best_block_hash, "json" >>

\* filename = f"proof_{chainstate_data['block_height']}_{chainstate_data['best_block_hash']}.json"
\* (line 134)
BlobName(chainstate_data) ==
    << "proof", Val(chainstate_data.block_height), chainstate_data.best_block_hash, "json" >>

\* upload_data   (lines 123-132)
UploadData(timestamp, chainstate_data, mmr_roots, proof_content) ==
    [ timestamp  |-> timestamp,
      chainstate |-> chainstate_data,
      mmr_roots  |-> mmr_roots,
      proof      |-> proof_content ]

\* Mutant of Put: a put to a taken name keeps the old blob and adds a version.
PutVersioned(bucket, filename, data) ==
    IF filename \in DOMAIN bucket
      THEN (Append(filename, data.timestamp) :> data) @@ bucket
      ELSE (filename :> data) @@ bucket

\* blob.upload_from_string(...): the put replaces whatever the name held   (lines 136-139)
Put(bucket, filename, data) == (filename :> data) @@ bucket

\* What the environment of one upload_to_gcs call is like.
UploadEnvs ==
    { "no_library", "no_credentials", "client_error", "unreadable", "put_error", "ok" }

\* Mutant of ClientAvailable: without credentials a default client is used.
ClientAvailableWithoutCredentials(env) == env \notin { "no_library", "client_error" }

\* storage is not None, the credentials file exists and the client is built
\* (lines 98-116)
ClientAvailable(env) == env \notin { "no_library", "no_credentials", "client_error" }

\* Mutant of UploadFailed: the result of upload_to_gcs is not looked at.
UploadFailedIgnored(upload_success) == FALSE

\* if not upload_success: return False   (line 235)
UploadFailed(upload_success) == ~upload_success

\* upload_success = upload_to_gcs(json_proof_file, chainstate_data, mmr_roots)
\* (lines 234-237, 94-147)
UploadToGcs ==
    /\ pc = "upload"
    /\ \E env \in UploadEnvs :
         LET chainstate_data == Val(v.chainstate_data)
             mmr_roots == Val(v.mmr_roots)
             has_client == ClientAvailable(env)
             readable == /\ has_client
                         /\ env # "unreadable"
                         /\ v.json_proof_file # None
                         /\ Val(v.json_proof_file) \in disk
             has_name == readable /\ chainstate_data.block_height # None
             put_issued == has_name
             upload_success == put_issued /\ env = "ok"
             timestamp == clock
             lines ==
                 CASE env = "no_library" ->
                        << Line("error", "Google Cloud Storage not available") >>
                   [] env = "no_credentials" ->
                        << Line("error", "No valid GCS authentication found") >>
                   [] upload_success ->
                        << Line("info", "Successfully uploaded proof to GCS") >>
                   [] OTHER ->
                        << Line("error", "Failed to upload to GCS") >>
         IN  /\ calls' = calls
                   \o (IF env \notin {"no_library", "no_credentials"}
                         THEN << Call("storage.Client", << >>, << >>) >> ELSE << >>)
                   \o (IF put_issued
                         THEN << Call("upload_from_string",
                                      << Val(chainstate_data.block_height), timestamp >>,
                                      << chainstate_data.best_block_hash >>) >>
                         ELSE << >>)
             /\ clock' = IF has_client THEN clock + 1 ELSE clock
             /\ store' = IF upload_success
                           THEN Put(store, BlobName(chainstate_data),
                                    UploadData(timestamp, chainstate_data, mmr_roots,
                                               Val(v.json_proof_file)))
                           ELSE store
             /\ puts' = IF upload_success
                          THEN Append(puts, [ block_height |-> Val(chainstate_data.block_height),
                                              best_block_hash |-> chainstate_data.best_block_hash ])
                          ELSE puts
             /\ v' = [v EXCEPT !.upload_success = Some(upload_success)]
             /\ IF UploadFailed(upload_success)
                  THEN Return(FALSE, lines \o << Line("error", "Failed to upload proof to GCS") >>)
                  ELSE /\ log' = log \o lines
                       /\ pc' = "cleanup"
                       /\ UNCHANGED ret
    /\ UNCHANGED << nruns, args, disk, other, collector >>

\* Mutant of CleanupFailedReturn: a failed unlink fails the run.
CleanupFailedReturnsFalse == FALSE

\* what the run returns when json_proof_file.unlink() raised   (lines 242-250)
CleanupFailedReturn == TRUE

\* Mutant of UnlinkTarget: the prover's file is the one removed.
UnlinkTargetNative(proof_file, json_proof_file) == proof_file

\* json_proof_file.unlink(): the file removed   (line 241)
UnlinkTarget(proof_file, json_proof_file) == json_proof_file

\* Clean up the temporary JSON proof file, then return True   (lines 239-250)
Cleanup ==
    /\ pc = "cleanup"
    /\ calls' = Append(calls, Call("unlink", << >>, Val(v.json_proof_file).stem))
    /\ \/ /\ disk' = disk \ { UnlinkTarget(Val(v.proof_file), Val(v.json_proof_file)) }
          /\ Return(TRUE, << Line("info", "Successfully built and uploaded proof") >>)
       \/ /\ disk' = disk
          /\ Return(CleanupFailedReturn,
                    << Line("warning", "Failed to clean up temporary JSON proof file"),
                       Line("info", "Successfully built and uploaded proof") >>)
    /\ UNCHANGED << nruns, args, v, store, clock, puts, other, collector >>

\* if success: exit(0) else: exit(1)   (lines 296-301)
ExitCode(success) == IF success THEN 0 ELSE 1

\* The process ends: nothing of the run survives but the disk and the bucket.
Exit ==
    /\ pc = "done"
    /\ ExitCode(Val(ret)) \in {0, 1}
    /\ pc' = "idle"
    /\ args' = NoArgs
    /\ v' = NoLocals
    /\ ret' = None
    /\ log' = << >>
    /\ calls' = << >>
    /\ UNCHANGED << nruns, disk, store, clock, puts, other, collector >>

Next ==
    \/ Invoke
    \/ GetLatestBlockHeight
    \/ AutoDetectStart
    \/ ProvidedStart
    \/ ApplyMaxHeight
    \/ CheckRange
    \/ ProvePow
    \/ ConvertProofToJson
    \/ GenerateData
    \/ UploadToGcs
    \/ Cleanup
    \/ Exit

Spec == Init /\ [][Next]_vars

\* ---------------------------------------------- a second, overlapping run
\* The second invocation shares the disk, the bucket and the clock with the
\* first; it is followed through the steps of build_recent_proof that touch
\* them, with its own locals in other.

\* The height of the last block of a range [start, end) with end a tip or a ceiling.
FinalHeights == { end_height - 1 : end_height \in Heights \ { 0 } }

OtherGoes(to) == other' = [other EXCEPT !.pc = to]

OtherLocal == UNCHANGED << pc, nruns, args, v, ret, log, calls, collector >>

\* Exactly one invocation of the first run.
InvokeOnce == InvokeWith(StartArgs, 1)

\* build_recent_proof(...) up to the range check   (lines 158-198)
OtherInvoke ==
    /\ other.pc = "idle"
    /\ \/ OtherGoes("prove_pow")
       \/ OtherGoes("done")
    /\ OtherLocal
    /\ UNCHANGED << disk, store, clock, puts >>

\* proof_file = prove_pow(...)   (lines 207-215)
OtherProvePow ==
    /\ other.pc = "prove_pow"
    /\ \/ /\ disk' = disk \cup { NativeProof }
          /\ OtherGoes("convert")
       \/ /\ disk' = disk
          /\ OtherGoes("done")
    /\ OtherLocal
    /\ UNCHANGED << store, clock, puts >>

\* json_proof_file = convert_proof_to_json(proof_file)   (lines 218-221)
OtherConvertProofToJson ==
    /\ other.pc = "convert"
    /\ \E outcome \in ConvertOutcomes, written \in BOOLEAN :
          /\ outcome = "exit_zero" => written
          /\ outcome \in { "not_found", "other_error" } => ~written
          /\ disk' = IF written THEN disk \cup { JsonProofFile(NativeProof) } ELSE disk
          /\ IF ConvertFailed(ConvertResult(outcome, JsonProofFile(NativeProof)))
               THEN OtherGoes("done")
               ELSE OtherGoes("generate_data")
    /\ OtherLocal
    /\ UNCHANGED << store, clock, puts >>

\* data = generate_data(...)   (lines 223-232)
OtherGenerateData ==
    /\ other.pc = "generate_data"
    /\ \/ \E h \in FinalHeights, hash \in Hashes :
             other' = [other EXCEPT
                         !.pc = "upload",
                         !.chainstate_data = Some([ block_height |-> Some(h),
                                                    best_block_hash |-> hash ])]
       \/ OtherGoes("done")
    /\ OtherLocal
    /\ UNCHANGED << disk, store, clock, puts >>

\* upload_success = upload_to_gcs(...)   (lines 234-237; lines 94-147)
OtherUploadToGcs ==
    /\ other.pc = "upload"
    /\ \E env \in UploadEnvs :
         LET chainstate_data == Val(other.chainstate_data)
             json_proof_file == JsonProofFile(NativeProof)
             has_client == ClientAvailable(env)
             upload_success == /\ has_client
                               /\ json_proof_file \in disk
                               /\ env = "ok"
         IN  /\ clock' = IF has_client THEN clock + 1 ELSE clock
             /\ store' = IF upload_success
                           THEN Put(store, BlobName(chainstate_data),
                                    UploadData(clock, chainstate_data,
                                               MmrRoots(Val(chainstate_data.block_height),
                                                        chainstate_data.best_block_hash),
                                               json_proof_file))
                           ELSE store
             /\ puts' = IF upload_success
                          THEN Append(puts, [ block_height |-> Val(chainstate_data.block_height),
                                              best_block_hash |-> chainstate_data.best_block_hash ])
                          ELSE puts
             /\ other' = [other EXCEPT
                             !.pc = IF UploadFailed(upload_success) THEN "done" ELSE "cleanup",
                             !.timestamp = IF upload_success THEN Some(clock) ELSE None,
                             !.upload_success = Some(upload_success)]
    /\ OtherLocal
    /\ UNCHANGED disk

\* json_proof_file.unlink()   (lines 239-245)
OtherCleanup ==
    /\ other.pc = "cleanup"
    /\ \/ disk' = disk \ { JsonProofFile(NativeProof) }
       \/ disk' = disk
    /\ OtherGoes("done")
    /\ OtherLocal
    /\ UNCHANGED << store, clock, puts >>

\* Two invocations at the same time, their steps interleaved in any order.
NextOverlap ==
    \/ InvokeOnce
    \/ GetLatestBlockHeight
    \/ AutoDetectStart
    \/ ProvidedStart
    \/ ApplyMaxHeight
    \/ CheckRange
    \/ ProvePow
    \/ ConvertProofToJson
    \/ GenerateData
    \/ UploadToGcs
    \/ Cleanup
    \/ OtherInvoke
    \/ OtherProvePow
    \/ OtherConvertProofToJson
    \/ OtherGenerateData
    \/ OtherUploadToGcs
    \/ OtherCleanup

SpecOverlap == Init /\ [][NextOverlap]_vars

\* Runs without --start only, one after the other, on one bucket.
NextResume ==
    \/ InvokeResume
    \/ GetLatestBlockHeight
    \/ AutoDetectStart
    \/ ApplyMaxHeight
    \/ CheckRange
    \/ ProvePow
    \/ ConvertProofToJson
    \/ GenerateData
    \/ UploadToGcs
    \/ Cleanup
    \/ Exit

SpecResume == Init /\ [][NextResume]_vars

\* ------------------------------------------------- collect_resources.py
\* The fixtures under tests/data.
TestFiles == { "light_1", "full_2" }

\* Sequences over S of length at most n.
SeqsUpTo(S, n) == UNION { [1 .. k -> S] : k \in 0 .. n }

\* The finite sequences over S without repetition (a directory listing).
Listings(S) == { l \in SeqsUpTo(S, Cardinality(S)) : \A i, j \in DOMAIN l : l[i] = l[j] => i = j }

\* How format_args_to_cairo_serde, the write of the arguments file and the
\* scarb subprocess end: an exception before the arguments file is written,
\* one after, or an output with "FAIL", with "OK" and no "FAIL", with neither.
RunOutcomes == { "format_error", "scarb_error", "FAIL", "OK", "neither" }

Failure(test_file, what) == << test_file, what >>

\* self.test_results[test_name] = {..., "status": status, ...}   (lines 106-112)
parse_resources(c, test_name, status) ==
    [c EXCEPT !.test_results =
                 { r \in @ : r[1] # test_name } \cup { << test_name, status >> }]

\* Mutant of ExceptionHandler: the failure is counted and not recorded.
ExceptionHandlerSilent(c, test_file) ==
    [c EXCEPT !.num_fail = @ + 1]

\* except Exception as e: self.num_fail += 1; self.failures.append(...)   (lines 309-312)
ExceptionHandler(c, test_file) ==
    [c EXCEPT !.num_fail = @ + 1,
              !.failures = Append(@, Failure(test_file, "Exception"))]

\* self.parse_resources(output, test_name, status), inside the try   (lines 290, 296, 303)
ParseOrHandle(c, test_file, status, parse_raises) ==
    IF parse_raises THEN ExceptionHandler(c, test_file)
                    ELSE parse_resources(c, test_file, status)

\* the try block of run_test   (lines 249-312)
TryTest(c, test_file, outcome, remove_raises, parse_raises) ==
    LET written == [c EXCEPT !.arguments_files = @ \cup { test_file }]
    IN  CASE outcome = "format_error" -> ExceptionHandler(c, test_file)
          [] outcome = "scarb_error" -> ExceptionHandler(written, test_file)
          [] outcome = "FAIL" ->
               ParseOrHandle([written EXCEPT !.num_fail = @ + 1,
                                             !.failures = Append(@, Failure(test_file, "Panicked"))],
                             test_file, "FAIL", parse_raises)
          [] outcome = "OK" ->
               LET counted == [written EXCEPT !.num_ok = @ + 1]
               IN  IF remove_raises
                     THEN ExceptionHandler(counted, test_file)
                     ELSE ParseOrHandle([counted EXCEPT !.arguments_files = @ \ { test_file }],
                                        test_file, "OK", parse_raises)
          [] OTHER ->
               ParseOrHandle([written EXCEPT !.num_fail = @ + 1,
                                             !.failures = Append(@, Failure(test_file, "Error"))],
                             test_file, "ERROR", parse_raises)

\* run_test(test_file, nocapture, forceall, ignored_files)   (lines 230-312);
\* nocapture only prints.
run_test(c, test_file, exists, outcome, remove_raises, parse_raises) ==
    IF ~exists
      THEN c
      ELSE LET given == [c EXCEPT !.processed = @ + 1]
           IN  IF ~c.forceall /\ test_file \in c.ignored_files
                 THEN [given EXCEPT !.num_ignored = @ + 1]
                 ELSE TryTest(given, test_file, outcome, remove_raises, parse_raises)

CollectorFrame ==
    UNCHANGED << pc, nruns, args, v, ret, log, calls, disk, store, clock, puts, other >>

\* main(), run up to the loop: load_ignored_files, the test files given or
\* found by glob   (lines 323-333, 377-386)
Run ==
    /\ collector.pc = "idle"
    /\ \/ \E given \in SeqsUpTo(TestFiles, MaxTestFiles), found \in Listings(TestFiles),
             forceall \in BOOLEAN, ignored_files \in SUBSET TestFiles :
             collector' = [collector EXCEPT
                             !.pc = "tests",
                             !.test_files = IF given = << >> THEN found ELSE given,
                             !.forceall = forceall,
                             !.ignored_files = ignored_files]
       \/ \* load_ignored_files raises
          collector' = [collector EXCEPT !.pc = "exited", !.raised = TRUE, !.status = Some(1)]
    /\ CollectorFrame

\* for test_file in test_files: self.run_test(...)   (lines 336-337)
RunTest ==
    /\ collector.pc = "tests"
    /\ collector.next <= Len(collector.test_files)
    /\ \E exists \in BOOLEAN, outcome \in RunOutcomes,
          remove_raises \in BOOLEAN, parse_raises \in BOOLEAN :
          collector' = [ run_test(collector, collector.test_files[collector.next],
                                  exists, outcome, remove_raises, parse_raises)
                           EXCEPT !.next = @ + 1 ]
    /\ CollectorFrame

\* self.write_csv()   (line 341; lines 171-217)
WriteCsv ==
    /\ collector.pc = "tests"
    /\ collector.next > Len(collector.test_files)
    /\ \/ collector' = [collector EXCEPT !.pc = "summary", !.csv_written = TRUE]
       \/ \* open(CSV_FILE, "w") raises
          collector' = [collector EXCEPT !.pc = "exited", !.raised = TRUE, !.status = Some(1)]
    /\ CollectorFrame

\* Mutant of SummaryStatus: the run always ends with status 0.
SummaryStatusZero(num_fail) == 0

\* if self.num_fail == 0: ... else: ... sys.exit(1)   (lines 347-358)
SummaryStatus(num_fail) == IF num_fail = 0 THEN 0 ELSE 1

\* the summary and the end of the process   (lines 343-358)
Summary ==
    /\ collector.pc = "summary"
    /\ collector' = [collector EXCEPT
                       !.pc = "exited",
                       !.status = Some(SummaryStatus(collector.num_fail))]
    /\ CollectorFrame

NextCollect ==
    \/ Run
    \/ RunTest
    \/ WriteCsv
    \/ Summary

SpecCollect == Init /\ [][NextCollect]_vars

\* ------------------------------------------------------------ observations
\* The collaborators of the stages after planning.
PipelineFns ==
    { "prove_pow", "convert_proof_format", "generate_data",
      "storage.Client", "upload_from_string", "unlink" }

CallsOf(fn) == SelectSeq(calls, LAMBDA c : c.fn = fn)

NoPipelineCalls == \A i \in DOMAIN calls : calls[i].fn \notin PipelineFns

Logged(level, msg) == \E i \in DOMAIN log : log[i] = Line(level, msg)

ErrorLogged == \E i \in DOMAIN log : log[i].level = "error"

\* Positions after the planning statements (lines 158-205) have run.
AfterPlanning == { "prove_pow", "convert", "generate_data", "upload", "cleanup", "done" }

\* Positions after the prove_pow call.
AfterProver == AfterPlanning \ { "prove_pow" }

\* ---------------------------------------------------------------- claims

\* C1 (as claimed): whenever start >= end after ceiling resolution, the run
\* ends as NoWorkNeeded: it returns True, logs no error, and calls neither the
\* prover, the converter, the metadata generator nor the storage backend.
C1_NoWorkNeededSucceeds ==
    ( /\ pc = "done"
      /\ v.start_height # None
      /\ v.end_height # None
      /\ Val(v.start_height) >= Val(v.end_height) )
    => ( /\ ret = Some(TRUE)
         /\ ~ErrorLogged
         /\ NoPipelineCalls )

\* The range the claim C2 speaks of: a resume_hint in 0 .. tip-1 and a
\* ceiling_hint that is absent or at least resume_hint.
C2_Pre ==
    /\ args.start_height # None
    /\ v.latest_height # None
    /\ 0 <= Val(args.start_height)
    /\ Val(args.start_height) < Val(v.latest_height)
    /\ (args.max_height = None \/ Val(args.max_height) >= Val(args.start_height))

C2_End ==
    Min(IF args.max_height = None THEN Val(v.latest_height) ELSE Val(args.max_height),
        Val(v.latest_height))

C2_Step == Min(args.max_step, C2_End - Val(args.start_height))

C2_ProverCall ==
    Call("prove_pow",
         << Val(args.start_height), C2_End - Val(args.start_height), C2_Step >>,
         << Mode(args.fast_data_generation) >>)

\* C2 (as claimed): for 0 <= resume_hint < tip and a ceiling_hint absent or
\* >= resume_hint, the plan has start = resume_hint, end = min(ceiling_hint or
\* tip, tip) and step = min(max_step, end - start), and when end > start the
\* prover is called with (start, end - start, step).
C2_PlanAsClaimed ==
    (C2_Pre /\ pc \in AfterPlanning)
    => ( /\ v.start_height = Some(Val(args.start_height))
         /\ v.end_height = Some(C2_End)
         /\ v.step = Some(C2_Step)
         /\ (C2_End > Val(args.start_height) /\ pc \in AfterProver)
               => CallsOf("prove_pow") = << C2_ProverCall >> )

\* C2 (amended): start = resume_hint and end = min(ceiling_hint or tip, tip);
\* when end > start the step is min(max_step, end - start) and the prover is
\* called exactly once, with (start, end - start, step); when end = start
\* (ceiling_hint = resume_hint) the run returns before a step is computed and
\* the prover is not called.
C2_Plan ==
    (C2_Pre /\ pc \in AfterPlanning)
    => ( /\ v.start_height = Some(Val(args.start_height))
         /\ v.end_height = Some(C2_End)
         /\ C2_End > Val(args.start_height)
               => /\ v.step = Some(C2_Step)
                  /\ pc \in AfterProver => CallsOf("prove_pow") = << C2_ProverCall >>
                  /\ pc = "prove_pow" => CallsOf("prove_pow") = << >>
         /\ C2_End <= Val(args.start_height)
               => /\ v.step = None
                  /\ pc = "done"
                  /\ CallsOf("prove_pow") = << >> )

\* C2 witness: a ceiling below the tip shortens the range, max_step is smaller
\* than the span, and the prover has been called.
C2_Witness ==
    /\ C2_Pre
    /\ args.max_height # None
    /\ Val(args.max_height) < Val(v.latest_height)
    /\ 0 < args.max_step
    /\ args.max_step < C2_End - Val(args.start_height)
    /\ CallsOf("prove_pow") = << C2_ProverCall >>
    /\ pc = "done"

\* How the planning statements of a run ended, read off its log.
PlanKind ==
    CASE Logged("error", "Max height cannot be less than start height") -> "CeilingBelowStart"
      [] Logged("error", "Start height must be less than end height") -> "StartNotBelowEnd"
      [] Logged("info", "No new blocks to process") -> "NoNewBlocks"
      [] OTHER -> "Plan"

\* What the planning statements left behind in this run.
ObservedPlan ==
    [ kind |-> PlanKind,
      end  |-> v.end_height,
      step |-> v.step,
      ret  |-> IF PlanKind = "Plan" THEN None ELSE ret ]

\* What lines 171-198 compute for a resolved start, a ceiling, a max_step and a tip.
PlanFor(start_height, max_height, max_step, latest_height) ==
    IF MaxHeightBelowStart(max_height, start_height)
      THEN [ kind |-> "CeilingBelowStart", end |-> None, step |-> None, ret |-> Some(FALSE) ]
      ELSE LET end_height == EndHeight(ClampMaxHeight(max_height, latest_height), latest_height)
               blocks_to_process == end_height - start_height
           IN  IF StartNotBelowEnd(start_height, end_height)
                 THEN [ kind |-> "StartNotBelowEnd", end |-> Some(end_height), step |-> None,
                        ret |-> Some(StartNotBelowEndReturn) ]
                 ELSE IF NoNewBlocks(blocks_to_process)
                   THEN [ kind |-> "NoNewBlocks", end |-> Some(end_height), step |-> None,
                          ret |-> Some(TRUE) ]
                   ELSE [ kind |-> "Plan", end |-> Some(end_height),
                          step |-> Some(StepFor(max_step, blocks_to_process)), ret |-> None ]

\* The calls of this run are those of a run whose plan is p: the prover gets
\* (start, p.end - start, p.step), the metadata generator (p.end - 1, 1), and a
\* run without a plan calls no collaborator of the later stages.
CallsFollow(p) ==
    IF p.kind = "Plan"
      THEN /\ \A i \in DOMAIN calls :
                 /\ calls[i].fn = "prove_pow"
                       => calls[i].ints = << Val(v.start_height),
                                             Val(p.end) - Val(v.start_height), Val(p.step) >>
                 /\ calls[i].fn = "generate_data"
                       => calls[i].ints = << Val(p.end) - 1, 1 >>
           /\ pc \in AfterProver => Len(CallsOf("prove_pow")) = 1
      ELSE NoPipelineCalls /\ pc = "done"

\* The run has a tip and a start >= 0, and its planning statements are over.
C3_Planned ==
    /\ v.latest_height # None
    /\ v.start_height # None
    /\ Val(v.start_height) >= 0
    /\ pc \in AfterPlanning

\* The same run without a ceiling_hint.
C3_Unconstrained ==
    PlanFor(Val(v.start_height), None, args.max_step, Val(v.latest_height))

\* C3 (as claimed): a run with ceiling_hint >= tip has the outcome and the
\* collaborator calls of the same run with no ceiling_hint.
C3_CeilingBeyondTipIgnoredAlways ==
    ( /\ C3_Planned
      /\ args.max_height # None
      /\ Val(args.max_height) >= Val(v.latest_height) )
    => ( /\ ObservedPlan = C3_Unconstrained
         /\ CallsFollow(C3_Unconstrained) )

\* C3 (amended): a run with ceiling_hint >= tip and ceiling_hint >= start has
\* the outcome and the collaborator calls of the same run with no ceiling_hint
\* (for start > ceiling_hint >= tip both return failure without calling a
\* collaborator, the first as CeilingBelowStart, the second as start >= end).
C3_CeilingBeyondTipIgnored ==
    ( /\ C3_Planned
      /\ args.max_height # None
      /\ Val(args.max_height) >= Val(v.latest_height)
      /\ Val(args.max_height) >= Val(v.start_height) )
    => ( /\ ObservedPlan = C3_Unconstrained
         /\ CallsFollow(C3_Unconstrained) )

\* C3 witness: a ceiling strictly beyond the tip, and the run went on to
\* publish a proof of [start, tip).
C3_Witness ==
    /\ C3_Planned
    /\ args.max_height # None
    /\ Val(args.max_height) > Val(v.latest_height)
    /\ Val(v.start_height) < Val(v.latest_height)
    /\ v.end_height = v.latest_height
    /\ Len(CallsOf("upload_from_string")) = 1
    /\ ret = Some(TRUE)

\* C4: once the tip and a start > 0 are resolved, a ceiling_hint < start ends
\* the run as CeilingBelowStart: it returns False, and the prover, converter,
\* metadata generator and storage backend are never called.
C4_CeilingBelowStart ==
    ( /\ v.latest_height # None
      /\ v.start_height # None
      /\ args.max_height # None
      /\ Val(v.start_height) > 0
      /\ Val(args.max_height) < Val(v.start_height)
      /\ pc \notin { "get_latest", "resolve_start", "apply_max_height" } )
    => ( /\ pc = "done"
         /\ ret = Some(FALSE)
         /\ log = << Line("error", "Max height cannot be less than start height") >>
         /\ NoPipelineCalls )

\* C4 witness: ceiling_hint = start - 1 and the run is over.
C4_Witness ==
    /\ pc = "done"
    /\ v.latest_height # None
    /\ v.start_height # None
    /\ args.max_height # None
    /\ Val(v.start_height) > 0
    /\ Val(args.max_height) = Val(v.start_height) - 1
    /\ Val(v.start_height) < Val(v.latest_height)
    /\ ret = Some(FALSE)

\* C5 (as claimed): whenever the prover is invoked, the step passed to it
\* satisfies 0 < step <= end - start, whatever max_step the caller gave.
C5_StepPositiveAndBounded ==
    \A i \in DOMAIN calls :
        calls[i].fn = "prove_pow"
           => /\ 0 < calls[i].ints[3]
              /\ calls[i].ints[3] <= calls[i].ints[2]
              /\ calls[i].ints[2] = Val(v.end_height) - Val(v.start_height)

\* C6: the prover is only called with start >= 0 and end > start (a block count
\* of at least 1), and a run whose range has end <= start is over without a
\* prover call.
C6_ProverGetsValidRange ==
    /\ pc = "prove_pow"
          => /\ Val(v.start_height) >= 0
             /\ Val(v.end_height) > Val(v.start_height)
    /\ \A i \in DOMAIN calls :
          calls[i].fn = "prove_pow"
             => /\ calls[i].ints[1] = Val(v.start_height)
                /\ calls[i].ints[1] >= 0
                /\ calls[i].ints[2] = Val(v.end_height) - Val(v.start_height)
                /\ calls[i].ints[2] >= 1
    /\ ( /\ v.start_height # None
         /\ v.end_height # None
         /\ pc # "check_range"
         /\ Val(v.end_height) <= Val(v.start_height) )
          => (pc = "done" /\ CallsOf("prove_pow") = << >>)

\* C6 witness: the prover was called for a single block, the smallest range,
\* from an auto-detected start.
C6_Witness ==
    /\ args.start_height = None
    /\ Len(CallsOf("prove_pow")) = 1
    /\ CallsOf("prove_pow")[1].ints[2] = 1

\* The (block_height, best_block_hash) of a stored record.
PairOf(record) ==
    << Val(record.chainstate.block_height), record.chainstate.best_block_hash >>

\* C7: the blob name is a function of (block_height, best_block_hash) only
\* (proof_{height}_{hash}.json), the bucket holds at most one record per pair,
\* and the number of stored records is the number of distinct pairs published,
\* so that publishing a pair twice leaves one record under one name.
C7_PublishIdempotent ==
    /\ \A n \in DOMAIN store :
          n = << "proof", PairOf(store[n])[1], PairOf(store[n])[2], "json" >>
    /\ \A n1, n2 \in DOMAIN store :
          PairOf(store[n1]) = PairOf(store[n2]) => n1 = n2
    /\ Cardinality(DOMAIN store)
          = Cardinality({ << puts[i].block_height, puts[i].best_block_hash >> : i \in DOMAIN puts })

\* C7 witness: the same pair was published twice and the bucket holds one
\* record, the later one.
C7_Witness ==
    /\ Len(puts) = 2
    /\ puts[1] = puts[2]
    /\ Cardinality(DOMAIN store) = 1
    /\ \A n \in DOMAIN store : store[n].timestamp = clock - 1

\* C8: when upload_to_gcs fails, for whatever reason, the run returns False
\* although the prover and the converter succeeded.
C8_PublishFailureFailsRun ==
    v.upload_success = Some(FALSE)
       => /\ pc = "done"
          /\ ret = Some(FALSE)
          /\ v.proof_file # None
          /\ v.json_proof_file # None
          /\ log[Len(log)] = Line("error", "Failed to upload proof to GCS")

\* C8 witness: the put itself was issued and failed.
C8_Witness ==
    /\ v.upload_success = Some(FALSE)
    /\ Len(CallsOf("upload_from_string")) = 1
    /\ ret = Some(FALSE)

\* C9: when removing the JSON proof file fails after a successful publish, the
\* run still returns True, and the failure is logged as a warning only.
C9_CleanupBestEffort ==
    Logged("warning", "Failed to clean up temporary JSON proof file")
       => /\ pc = "done"
          /\ ret = Some(TRUE)
          /\ v.upload_success = Some(TRUE)
          /\ ~ErrorLogged

\* C9 witness: the unlink failed, the file is still there, the run succeeded.
C9_Witness ==
    /\ Logged("warning", "Failed to clean up temporary JSON proof file")
    /\ v.json_proof_file # None
    /\ Val(v.json_proof_file) \in disk
    /\ ret = Some(TRUE)

\* C10 (as claimed): in every run in which the converted artifact was created,
\* its removal is attempted before the run ends, whether the publish succeeds
\* or the metadata generation or the publish fails.
C10_CleanupRegardlessOfOutcome ==
    (pc = "done" /\ v.json_proof_file # None)
       => Len(CallsOf("unlink")) = 1

\* C11: when the converter executable is absent the run is over and returns
\* False, neither the metadata generator nor the storage backend is called, and
\* the native proof file the prover wrote is still on disk.
C11_ToolMissingFailsRun ==
    Logged("error", "convert_proof_format command not found")
       => /\ pc = "done"
          /\ ret = Some(FALSE)
          /\ CallsOf("generate_data") = << >>
          /\ CallsOf("storage.Client") = << >>
          /\ CallsOf("upload_from_string") = << >>
          /\ CallsOf("unlink") = << >>
          /\ calls[Len(calls)].fn = "convert_proof_format"
          /\ v.proof_file # None
          /\ Val(v.proof_file) \in disk

\* C11 witness: the run ended on the missing executable.
C11_Witness ==
    /\ pc = "done"
    /\ Logged("error", "convert_proof_format command not found")
    /\ Len(CallsOf("prove_pow")) = 1
    /\ NativeProof \in disk

\* C12 (as claimed): the value convert_proof_to_json returns for a missing
\* executable differs from the one it returns for a non-zero exit.
C12_ToolMissingDistinctValue ==
    Logged("error", "convert_proof_format command not found")
       => v.json_proof_file # ConvertResult("exit_nonzero", JsonProofFile(Val(v.proof_file)))

\* C13: no exception leaves build_recent_proof: a run never ends by raising,
\* every finished run has returned True or False, and a run in which a
\* collaborator raised has returned False.
C13_NoErrorEscapes ==
    /\ pc # "raised"
    /\ pc = "done" => ret \in { Some(TRUE), Some(FALSE) }
    /\ pc # "done" => ret = None
    /\ Logged("error", "Error in build_recent_proof") => (pc = "done" /\ ret = Some(FALSE))

\* C13 witness: get_latest_block_height logged and re-raised, and the run
\* returned False.
C13_Witness ==
    /\ pc = "done"
    /\ log = << Line("error", "Failed to get latest block height"),
                Line("error", "Error in build_recent_proof") >>
    /\ ret = Some(FALSE)

\* The run stopped in upload_to_gcs for want of the library or of credentials.
BackendUnavailable ==
    \/ Logged("error", "Google Cloud Storage not available")
    \/ Logged("error", "No valid GCS authentication found")

\* C14: when the storage library is unavailable or no valid credentials are
\* found, upload_to_gcs fails before any put is issued, the bucket and the disk
\* are left as they were (nothing is persisted elsewhere), and the run returns
\* False.
C14_BackendUnavailableIsFatal ==
    [][ (pc = "upload" /\ BackendUnavailable')
          => /\ pc' = "done"
             /\ ret' = Some(FALSE)
             /\ store' = store
             /\ puts' = puts
             /\ disk' = disk
             /\ CallsOf("upload_from_string")' = << >>
             /\ CallsOf("storage.Client")' = << >> ]_vars

\* C14 witness: a run that ended for want of credentials.
C14_Witness ==
    /\ pc = "done"
    /\ Logged("error", "No valid GCS authentication found")
    /\ v.upload_success = Some(FALSE)
    /\ ret = Some(FALSE)

\* C15: a negative resume_hint makes the run return False without calling the
\* prover, the converter, the metadata generator or the storage backend,
\* whatever the tip and the ceiling are; once the tip is known the run ends as
\* InvalidStart ("Start height cannot be negative").
C15_NegativeStartRejected ==
    (args.start_height # None /\ Val(args.start_height) < 0)
       => /\ NoPipelineCalls
          /\ pc \in { "get_latest", "resolve_start", "done" }
          /\ pc = "done" => ret = Some(FALSE)
          /\ (pc = "done" /\ v.latest_height # None)
                => log = << Line("error", "Start height cannot be negative") >>

\* C15 witness: a negative start with a ceiling and a tip above it.
C15_Witness ==
    /\ pc = "done"
    /\ args.start_height = Some(-1)
    /\ args.max_height # None
    /\ v.latest_height # None
    /\ Val(v.latest_height) > 0
    /\ ret = Some(FALSE)

\* The order of the stages' collaborators within one run.
StageOrder ==
    << "prove_pow", "convert_proof_format", "generate_data",
       "storage.Client", "upload_from_string", "unlink" >>

\* The stage collaborators this run has called, in order.
StageCalls == SelectSeq(calls, LAMBDA c : c.fn \in PipelineFns)

\* C16: the stages of a run occur in the order PLAN, DRIVE, CONVERT, SUMMARIZE,
\* PUBLISH, CLEANUP: the calls made so far are an initial part of that order,
\* each stage is entered only after the one before it succeeded (the put only
\* with a proof file, a converted file and metadata; the unlink only after a
\* successful upload), and a run that ended before its last stage returned
\* False.
C16_StageOrder ==
    /\ Len(StageCalls) <= Len(StageOrder)
    /\ \A i \in DOMAIN StageCalls : StageCalls[i].fn = StageOrder[i]
    /\ CallsOf("convert_proof_format") # << >> => v.proof_file # None
    /\ CallsOf("generate_data") # << >> => v.json_proof_file # None
    /\ CallsOf("storage.Client") # << >> => v.chainstate_data # None
    /\ CallsOf("upload_from_string") # << >>
          => (v.proof_file # None /\ v.json_proof_file # None /\ v.chainstate_data # None)
    /\ CallsOf("unlink") # << >> => v.upload_success = Some(TRUE)
    /\ (pc = "done" /\ Len(StageCalls) < Len(StageOrder)) => ret = Some(FALSE)
    /\ (pc = "done" /\ ret = Some(FALSE)) => CallsOf("unlink") = << >>

\* C16 witness: a run that went through every stage: all six collaborators
\* were called in order and the run returned True.
C16_Witness ==
    /\ pc = "done"
    /\ Len(StageCalls) = Len(StageOrder)
    /\ ret = Some(TRUE)

\* C17: nothing is retried within a run: the prover, the converter, the
\* metadata generator and the put are each called at most once, and a prover
\* call that returned None ends the run with False, the prover call being the
\* last call made.
C17_NoRetries ==
    /\ \A fn \in { "prove_pow", "convert_proof_format", "generate_data", "upload_from_string" } :
          Len(CallsOf(fn)) <= 1
    /\ Logged("error", "Failed to generate proof")
          => /\ pc = "done"
             /\ ret = Some(FALSE)
             /\ Len(CallsOf("prove_pow")) = 1
             /\ calls[Len(calls)].fn = "prove_pow"

\* C17 witness: the prover returned None and the run is over.
C17_Witness ==
    /\ pc = "done"
    /\ Logged("error", "Failed to generate proof")
    /\ v.proof_file = None

\* C18: the metadata generator is asked for exactly one block, the last one of
\* the planned range (height end - 1, count 1), also when a ceiling below the
\* tip shortened the range, and a published record carries the generator's
\* chainstate and roots as returned.
C18_SummarizeLastBlock ==
    /\ \A i \in DOMAIN calls :
          calls[i].fn = "generate_data"
             => /\ calls[i].ints = << Val(v.end_height) - 1, 1 >>
                /\ calls[i].strs[1] = "light"
    /\ v.upload_success = Some(TRUE)
          => LET name == BlobName(Val(v.chainstate_data))
             IN  /\ name \in DOMAIN store
                 /\ store[name].chainstate = Val(v.chainstate_data)
                 /\ store[name].mmr_roots = Val(v.mmr_roots)

\* C18 witness: a ceiling below the tip shortened a range of more than one
\* block, and its record was published.
C18_Witness ==
    /\ v.upload_success = Some(TRUE)
    /\ args.max_height # None
    /\ Val(v.end_height) < Val(v.latest_height)
    /\ Val(v.blocks_to_process) > 1

\* The puts completed before the current run published, if it has.
PutsBefore ==
    IF v.upload_success = Some(TRUE) THEN SubSeq(puts, 1, Len(puts) - 1) ELSE puts

\* Where the run after the puts in ps resumes: after the last published height.
ResumePoint(ps) == IF ps = << >> THEN 0 ELSE ps[Len(ps)].block_height + 1

\* C19: over runs without --start, each run starts at the height after the
\* highest published one; a run that publishes publishes height end - 1, so
\* that the next run starts at its end and the ranges [start, end) of the
\* successful runs are contiguous and do not overlap; a run that has not
\* published, failed runs included, leaves the resume point where it was.
C19_ResumeContiguous ==
    /\ \A i \in 1 .. Len(puts) - 1 : puts[i + 1].block_height > puts[i].block_height
    /\ v.start_height # None
          => /\ Val(v.start_height) = ResumePoint(PutsBefore)
             /\ v.upload_success # Some(TRUE) => auto_detect_start = Val(v.start_height)
    /\ v.upload_success = Some(TRUE)
          => /\ Val(v.start_height) < Val(v.end_height)
             /\ ResumePoint(puts) = Val(v.end_height)
             /\ auto_detect_start = Val(v.end_height)
    /\ pc = "done" => (ret = Some(TRUE) <=> v.upload_success = Some(TRUE))
    /\ pc = "idle" => auto_detect_start = ResumePoint(puts)

\* C19 witness: of three runs one failed and two published; the second of
\* them started above 0, where the first ended.
C19_Witness ==
    /\ pc = "done"
    /\ nruns = 3
    /\ Len(puts) = 2
    /\ ret = Some(TRUE)
    /\ Val(v.start_height) = puts[1].block_height + 1
    /\ Val(v.end_height) > Val(v.start_height) + 1

\* The (block_height, best_block_hash) pairs published so far.
PublishedPairs == { << puts[i].block_height, puts[i].best_block_hash >> : i \in DOMAIN puts }

\* The timestamp with which the first run issued its put.
PutTimestamp == CallsOf("upload_from_string")[1].ints[2]

\* Both runs have published, and the same final block.
BothPublishedSame ==
    /\ v.upload_success = Some(TRUE)
    /\ other.upload_success = Some(TRUE)
    /\ Val(v.chainstate_data) = Val(other.chainstate_data)

\* C20: with two invocations interleaved in any order, the bucket never holds
\* two records for one final block: each record sits under the name made of
\* its (block_height, best_block_hash), there are as many records as pairs
\* published, and when both runs publish the same pair there is one record
\* under one name, that of the later put.
C20_OverlapOneRecordPerBlock ==
    /\ \A n \in DOMAIN store :
          n = << "proof", PairOf(store[n])[1], PairOf(store[n])[2], "json" >>
    /\ Cardinality(DOMAIN store) = Cardinality(PublishedPairs)
    /\ BothPublishedSame
          => /\ Cardinality(DOMAIN store) = 1
             /\ \A n \in DOMAIN store :
                   /\ store[n].chainstate = Val(v.chainstate_data)
                   /\ store[n].timestamp
                         = IF PutTimestamp > Val(other.timestamp)
                             THEN PutTimestamp ELSE Val(other.timestamp)

\* C20 witness: both runs are past their put of the same pair and before
\* their cleanup, the second run having put first.
C20_Witness ==
    /\ BothPublishedSame
    /\ pc = "cleanup"
    /\ other.pc = "cleanup"
    /\ Val(other.timestamp) < PutTimestamp

\* C21: a run returns True only after a put of its own completed: its record
\* is in the bucket under its name, and the put is the call before the unlink;
\* "No new blocks to process" is never logged, so that no run succeeds
\* without publishing.
C21_SuccessOnlyAfterPut ==
    /\ ~Logged("info", "No new blocks to process")
    /\ (pc = "done" /\ ret = Some(TRUE))
          => /\ v.upload_success = Some(TRUE)
             /\ Len(CallsOf("upload_from_string")) = 1
             /\ BlobName(Val(v.chainstate_data)) \in DOMAIN store
             /\ store[BlobName(Val(v.chainstate_data))].timestamp
                   = CallsOf("upload_from_string")[1].ints[2]
             /\ puts # << >>
             /\ Logged("info", "Successfully uploaded proof to GCS")

\* C21 witness: a run that returned True.
C21_Witness ==
    /\ pc = "done"
    /\ ret = Some(TRUE)
    /\ Logged("info", "Successfully built and uploaded proof")

\* C22: no step of a run removes the prover's file; the only file a step
\* removes is the converted one, in the cleanup that follows a successful
\* upload.
C22_NativeProofKept ==
    [][ /\ NativeProof \in disk => NativeProof \in disk'
        /\ disk \ disk' # {}
              => /\ disk \ disk' = { JsonProofFile(NativeProof) }
                 /\ pc = "cleanup"
                 /\ v.upload_success = Some(TRUE) ]_vars

\* C22 witness: after a successful run the converted file is gone and the
\* prover's file is still there.
C22_Witness ==
    /\ pc = "done"
    /\ ret = Some(TRUE)
    /\ NativeProof \in disk
    /\ JsonProofFile(NativeProof) \notin disk

\* C23: every existing file given to run_test is counted once: the three
\* counters add up to the number of existing files processed.
C23_CountedOnce ==
    collector.num_ok + collector.num_fail + collector.num_ignored = collector.processed

\* C24 as stated: there are as many failure messages as num_fail, and the
\* process ends with a non-zero status exactly when num_fail > 0, the CSV
\* report written.
C24_AsClaimed ==
    /\ Len(collector.failures) = collector.num_fail
    /\ collector.pc = "exited"
          => /\ Val(collector.status) # 0 <=> collector.num_fail > 0
             /\ collector.csv_written

\* C24: there are as many failure messages as num_fail after every run_test,
\* the exception handlers included; when load_ignored_files and write_csv
\* return, the process ends after the CSV report is written, with status 1
\* when num_fail > 0 and 0 otherwise; when one of them raises, the process
\* ends with a non-zero status whatever num_fail is.
C24_FailuresAndStatus ==
    /\ Len(collector.failures) = collector.num_fail
    /\ collector.num_fail >= 0
    /\ collector.pc = "summary" => collector.csv_written
    /\ (collector.pc = "exited" /\ ~collector.raised)
          => /\ collector.csv_written
             /\ collector.status = Some(IF collector.num_fail > 0 THEN 1 ELSE 0)
    /\ (collector.pc = "exited" /\ collector.raised)
          => /\ collector.status = Some(1)
             /\ ~collector.csv_written

\* C24 witness: a run ended with status 1 after the report, one of its
\* failures recorded by the exception handler.
C24_Witness ==
    /\ collector.pc = "exited"
    /\ ~collector.raised
    /\ collector.csv_written
    /\ collector.status = Some(1)
    /\ collector.num_fail = 2
    /\ \E i \in DOMAIN collector.failures : collector.failures[i][2] = "Exception"
====
